---- MODULE Spec2Model ----
(***************************************************************************)
(* A model of two reconciliation components of cluster-api-provider-azure: *)
(*   - agentpools.AgentPoolSpec.Parameters (azure/services/agentpools/     *)
(*     spec.go): the diff against the existing agent pool, the terminal    *)
(*     state gate and the merge of kubernetes.azure.com labels;            *)
(*   - virtualmachines.Service (Get, Reconcile and Delete) with its image  *)
(*     resolution helpers.                                                 *)
(* Go pointers are modelled as sequences of length at most one: Nil is the *)
(* nil pointer and Ptr(v) a pointer to v.  Go maps carry a nil flag, since *)
(* cmp.Diff tells a nil map from an empty one.                             *)
(***************************************************************************)
EXTENDS Integers, Sequences, FiniteSets

VARIABLES
    s,          \* the AgentPoolSpec the caller holds (receiver of Parameters)
    s0,         \* the AgentPoolSpec as it was constructed
    existing,   \* the argument of the last Parameters call
    ret,        \* what the last Parameters call returned
    called,     \* whether Parameters has been called
    remotePool, \* the agent pool the provider holds (Nil: none), in the loop
    image,      \* the infrav1.Image handed to generateImageReference
    imageRet,   \* what generateImageReference returned
    resolved,   \* whether generateImageReference has been called
    vmSpec,     \* the virtualmachines.Spec of the machine
    remoteVM,   \* the virtual machine the provider holds (Nil: none)
    nic,        \* the ID of the network interface the provider holds (Nil: none)
    prev,       \* the service call before the last one
    last,       \* the last service call: its steps and what it returned
    nOps        \* steps taken so far

poolVars == <<s, s0, existing, ret, called, remotePool>>

imageVars == <<image, imageRet, resolved>>

vmVars == <<vmSpec, remoteVM, nic, prev, last, nOps>>

vars == <<poolVars, imageVars, vmVars>>

----------------------------------------------------------------------------
(* Go values *)

Nil == <<>>

Ptr(v) == <<v>>

\* to.Bool: the pointed-to bool, false for nil
ToBool(p) == IF p = Nil THEN FALSE ELSE p[1]

\* to.String: the pointed-to string, "" for nil
ToString(p) == IF p = Nil THEN "" ELSE p[1]

NilMap == [nil |-> TRUE, kv |-> <<>>]

MapOf(f) == [nil |-> FALSE, kv |-> f]

NoError == [type |-> "nil", requeueAfter |-> 0, msg |-> ""]

\* errors.New / errors.Errorf
NewError(m) == [type |-> "Error", requeueAfter |-> 0, msg |-> m]

----------------------------------------------------------------------------
(* Bounds and input domains *)

MaxReplicas == 1

TransientRetrySeconds == 20

AzureSystemNodeLabelPrefix == "kubernetes.azure.com"

UserLabelKey == "env"

SystemLabelKey == "kubernetes.azure.com/mode"

LabelKeys == {UserLabelKey, SystemLabelKey}

LabelValues == {"a", "b"}

\* the user label takes one value, the system label two
LabelFunctions ==
    {f \in UNION {[D -> LabelValues] : D \in SUBSET LabelKeys} :
        UserLabelKey \in DOMAIN f => f[UserLabelKey] = "a"}

LabelMaps == {NilMap} \cup {MapOf(f) : f \in LabelFunctions}

Versions == {Ptr("1.21.2"), Ptr("1.22.0")}

Modes == {"System", "User"}

\* versions and modes are compared for equality only: the Spec keeps one of
\* each and the existing pool ranges over all
SpecVersions == {Ptr("1.22.0")}

SpecModes == {"System"}

\* EnableAutoScaling, MinCount and MaxCount as they occur together
ScalingConfigs ==
    { [eas |-> Nil,        min |-> Nil,    max |-> Nil],
      [eas |-> Ptr(FALSE), min |-> Nil,    max |-> Nil],
      [eas |-> Ptr(TRUE),  min |-> Ptr(1), max |-> Ptr(3)],
      [eas |-> Ptr(TRUE),  min |-> Ptr(1), max |-> Ptr(5)],
      [eas |-> Ptr(TRUE),  min |-> Ptr(2), max |-> Ptr(3)] }

SpecTaints == {<<>>, <<"dedicated=gpu:NoSchedule">>}

ExistingTaints == {Nil, Ptr(<<"sku=spot:NoSchedule">>)}

TerminalStates == {"Succeeded", "Failed", "Canceled"}

ProvisioningStates == TerminalStates \cup {"Updating"}

\* AgentPoolSpec: the fields Parameters compares vary, the others are fixed
AgentPoolSpecs ==
    { [ Name |-> "pool0", ResourceGroup |-> "rg", Cluster |-> "aks",
        Version |-> v, SKU |-> "Standard_D2s_v3", Replicas |-> r,
        OSDiskSizeGB |-> 128, VnetSubnetID |-> "", Mode |-> m,
        MaxCount |-> c.max, MinCount |-> c.min, NodeLabels |-> l,
        NodeTaints |-> t, EnableAutoScaling |-> c.eas,
        AvailabilityZones |-> <<"1">>, MaxPods |-> Nil,
        OsDiskType |-> Ptr("Managed"), EnableUltraSSD |-> Nil,
        OSType |-> Nil, EnableNodePublicIP |-> Nil,
        NodePublicIPPrefixID |-> Nil, ScaleSetPriority |-> Nil ] :
      v \in SpecVersions, r \in 0..MaxReplicas, m \in SpecModes,
      c \in ScalingConfigs, l \in LabelMaps, t \in SpecTaints }

\* containerservice.AgentPool as the remote returns it
AgentPools ==
    { [ ProvisioningState |-> ps, Count |-> Ptr(n), OrchestratorVersion |-> v,
        Mode |-> m, EnableAutoScaling |-> c.eas, MinCount |-> c.min,
        MaxCount |-> c.max, NodeLabels |-> l, NodeTaints |-> t ] :
      ps \in ProvisioningStates, n \in 0..MaxReplicas, v \in Versions,
      m \in Modes, c \in ScalingConfigs, l \in LabelMaps,
      t \in ExistingTaints }

NoPool == [ ProvisioningState |-> "", Count |-> Nil, OrchestratorVersion |-> Nil,
            Mode |-> "", EnableAutoScaling |-> Nil, MinCount |-> Nil,
            MaxCount |-> Nil, NodeLabels |-> NilMap, NodeTaints |-> Nil ]

\* the values of the interface{} argument of Parameters
NoExisting == [kind |-> "nil", pool |-> NoPool]

NotAnAgentPool == [kind |-> "other", pool |-> NoPool]

ExistingOf(p) == [kind |-> "AgentPool", pool |-> p]

ExistingArgs == {NoExisting, NotAnAgentPool} \cup {ExistingOf(p) : p \in AgentPools}

----------------------------------------------------------------------------
(* agentpools.AgentPoolSpec.Parameters *)

IsAzureSystemNodeLabelKey(k) ==
    /\ Len(k) >= Len(AzureSystemNodeLabelPrefix)
    /\ SubSeq(k, 1, Len(AzureSystemNodeLabelPrefix)) = AzureSystemNodeLabelPrefix

\* azure.WithTransientError(err, requeueAfter)
WithTransientError(m, seconds) ==
    [type |-> "Transient", requeueAfter |-> seconds, msg |-> m]

\* mergeSystemNodeLabels keeping the value of capz for a key of both maps
mergeSystemNodeLabels_SpecWins(capz, aks) ==
    LET sys == {k \in DOMAIN aks.kv : IsAzureSystemNodeLabelKey(k)}
    IN  [nil |-> capz.nil,
         kv  |-> [k \in (DOMAIN capz.kv) \cup sys |->
                    IF k \in DOMAIN capz.kv THEN capz.kv[k] ELSE aks.kv[k]]]

\* mergeSystemNodeLabels writes the system labels of aks into capz itself
\* (ret := capz aliases the map) and returns it.
mergeSystemNodeLabels(capz, aks) ==
    LET sys == {k \in DOMAIN aks.kv : IsAzureSystemNodeLabelKey(k)}
    IN  [nil |-> capz.nil,
         kv  |-> [k \in (DOMAIN capz.kv) \cup sys |->
                    IF k \in sys THEN aks.kv[k] ELSE capz.kv[k]]]

\* IsTerminal with the Failed state forgotten
IsTerminal_NoFailed(ps) == ps = "Canceled" \/ ps = "Succeeded"

IsTerminal(ps) == ps = "Canceled" \/ ps = "Failed" \/ ps = "Succeeded"

\* the existingProfile of Parameters
ExistingProfile(pool) ==
    [ Count |-> pool.Count, OrchestratorVersion |-> pool.OrchestratorVersion,
      Mode |-> pool.Mode, EnableAutoScaling |-> pool.EnableAutoScaling,
      MinCount |-> pool.MinCount, MaxCount |-> pool.MaxCount,
      NodeLabels |-> pool.NodeLabels, NodeTaints |-> pool.NodeTaints ]

\* NormalizedProfile without the autoscaling carve-out
NormalizedProfile_NoCarveOut(sp, pool) ==
    [ Count |-> Ptr(sp.Replicas),
      OrchestratorVersion |-> sp.Version,
      Mode |-> sp.Mode, EnableAutoScaling |-> sp.EnableAutoScaling,
      MinCount |-> sp.MinCount, MaxCount |-> sp.MaxCount,
      NodeLabels |-> sp.NodeLabels, NodeTaints |-> pool.NodeTaints ]

\* NormalizedProfile with the taints of the Spec in place of the existing ones
NormalizedProfile_SpecTaints(sp, pool) ==
    [ Count |-> IF ToBool(sp.EnableAutoScaling)
                THEN pool.Count ELSE Ptr(sp.Replicas),
      OrchestratorVersion |-> sp.Version,
      Mode |-> sp.Mode, EnableAutoScaling |-> sp.EnableAutoScaling,
      MinCount |-> sp.MinCount, MaxCount |-> sp.MaxCount,
      NodeLabels |-> sp.NodeLabels,
      NodeTaints |-> IF Len(sp.NodeTaints) > 0 THEN Ptr(sp.NodeTaints) ELSE Nil ]

\* the normalizedProfile of Parameters, with the autoscaling carve-out applied
NormalizedProfile(sp, pool) ==
    [ Count |-> IF ToBool(sp.EnableAutoScaling)
                THEN pool.Count ELSE Ptr(sp.Replicas),
      OrchestratorVersion |-> sp.Version,
      Mode |-> sp.Mode, EnableAutoScaling |-> sp.EnableAutoScaling,
      MinCount |-> sp.MinCount, MaxCount |-> sp.MaxCount,
      NodeLabels |-> sp.NodeLabels, NodeTaints |-> pool.NodeTaints ]

\* cmp.Diff: the fields on which the two values differ (the report is ""
\* exactly when there is none)
Diff(x, y) == {f \in DOMAIN x : x[f] # y[f]}

\* the containerservice.AgentPool Parameters builds from the Spec
Payload(sp, nodeLabels) ==
    [ AvailabilityZones |->
          IF Len(sp.AvailabilityZones) > 0 THEN Ptr(sp.AvailabilityZones) ELSE Nil,
      Count |-> IF sp.Replicas > 0 THEN Ptr(sp.Replicas) ELSE Nil,
      EnableAutoScaling |-> sp.EnableAutoScaling,
      EnableUltraSSD |-> sp.EnableUltraSSD,
      MaxCount |-> sp.MaxCount,
      MaxPods |-> sp.MaxPods,
      MinCount |-> sp.MinCount,
      Mode |-> sp.Mode,
      NodeLabels |-> nodeLabels,
      NodeTaints |-> IF Len(sp.NodeTaints) > 0 THEN Ptr(sp.NodeTaints) ELSE Nil,
      OrchestratorVersion |-> sp.Version,
      OsDiskSizeGB |-> Ptr(sp.OSDiskSizeGB),
      OsDiskType |-> ToString(sp.OsDiskType),
      OsType |-> ToString(sp.OSType),
      ScaleSetPriority |-> ToString(sp.ScaleSetPriority),
      Type |-> "VirtualMachineScaleSets",
      VMSize |-> IF sp.SKU # "" THEN Ptr(sp.SKU) ELSE Nil,
      VnetSubnetID |-> IF sp.VnetSubnetID # "" THEN Ptr(sp.VnetSubnetID) ELSE Nil,
      EnableNodePublicIP |-> sp.EnableNodePublicIP,
      NodePublicIPPrefixID |-> sp.NodePublicIPPrefixID ]

\* Parameters without the type assertion on existing: a value of another type
\* is handled as no existing pool
Parameters_TypeUnchecked(sp, ex) ==
    IF ex.kind # "AgentPool" THEN
        [params |-> Ptr(Payload(sp, sp.NodeLabels)), err |-> NoError, s |-> sp]
    ELSE IF ~IsTerminal(ex.pool.ProvisioningState) THEN
        [params |-> Nil,
         err |-> WithTransientError(
                   "Unable to update existing agent pool in non terminal state. Agent pool must be in one of the following provisioning states: Canceled, Failed, or Succeeded. Actual state: "
                   \o ex.pool.ProvisioningState, TransientRetrySeconds),
         s |-> sp]
    ELSE IF Diff(NormalizedProfile(sp, ex.pool), ExistingProfile(ex.pool)) = {} THEN
        [params |-> Nil, err |-> NoError, s |-> sp]
    ELSE IF ~sp.NodeLabels.nil THEN
        LET merged == mergeSystemNodeLabels(sp.NodeLabels, ex.pool.NodeLabels)
            after  == [sp EXCEPT !.NodeLabels = merged]
        IN  [params |-> Ptr(Payload(after, merged)), err |-> NoError, s |-> after]
    ELSE
        [params |-> Ptr(Payload(sp, sp.NodeLabels)), err |-> NoError, s |-> sp]

\* Parameters returning no payload when there is no existing pool
Parameters_CreationSkipped(sp, ex) ==
    IF ex.kind = "nil" THEN
        [params |-> Nil, err |-> NoError, s |-> sp]
    ELSE IF ex.kind # "AgentPool" THEN
        [params |-> Nil,
         err |-> NewError("not a containerservice.AgentPool"), s |-> sp]
    ELSE IF ~IsTerminal(ex.pool.ProvisioningState) THEN
        [params |-> Nil,
         err |-> WithTransientError(
                   "Unable to update existing agent pool in non terminal state. Agent pool must be in one of the following provisioning states: Canceled, Failed, or Succeeded. Actual state: "
                   \o ex.pool.ProvisioningState, TransientRetrySeconds),
         s |-> sp]
    ELSE IF Diff(NormalizedProfile(sp, ex.pool), ExistingProfile(ex.pool)) = {} THEN
        [params |-> Nil, err |-> NoError, s |-> sp]
    ELSE IF ~sp.NodeLabels.nil THEN
        LET merged == mergeSystemNodeLabels(sp.NodeLabels, ex.pool.NodeLabels)
            after  == [sp EXCEPT !.NodeLabels = merged]
        IN  [params |-> Ptr(Payload(after, merged)), err |-> NoError, s |-> after]
    ELSE
        [params |-> Ptr(Payload(sp, sp.NodeLabels)), err |-> NoError, s |-> sp]

\* Parameters(existing) on receiver sp: the payload (Nil or a pointer), the
\* error, and the receiver as the call leaves it.
Parameters(sp, ex) ==
    IF ex.kind = "nil" THEN
        [params |-> Ptr(Payload(sp, sp.NodeLabels)), err |-> NoError, s |-> sp]
    ELSE IF ex.kind # "AgentPool" THEN
        [params |-> Nil,
         err |-> NewError("not a containerservice.AgentPool"), s |-> sp]
    ELSE IF ~IsTerminal(ex.pool.ProvisioningState) THEN
        [params |-> Nil,
         err |-> WithTransientError(
                   "Unable to update existing agent pool in non terminal state. Agent pool must be in one of the following provisioning states: Canceled, Failed, or Succeeded. Actual state: "
                   \o ex.pool.ProvisioningState, TransientRetrySeconds),
         s |-> sp]
    ELSE IF Diff(NormalizedProfile(sp, ex.pool), ExistingProfile(ex.pool)) = {} THEN
        [params |-> Nil, err |-> NoError, s |-> sp]
    ELSE IF ~sp.NodeLabels.nil THEN
        LET merged == mergeSystemNodeLabels(sp.NodeLabels, ex.pool.NodeLabels)
            after  == [sp EXCEPT !.NodeLabels = merged]
        IN  [params |-> Ptr(Payload(after, merged)), err |-> NoError, s |-> after]
    ELSE
        [params |-> Ptr(Payload(sp, sp.NodeLabels)), err |-> NoError, s |-> sp]


----------------------------------------------------------------------------
(* virtualmachines: image resolution *)

\* infrav1.Image: every field is a *string, Nil or one value (the explicit
\* ID may also point to the empty string)
Images ==
    { [ ID |-> id, SubscriptionID |-> sub, ResourceGroup |-> rg,
        Gallery |-> gal, Name |-> nm, Version |-> ver,
        Publisher |-> pub, Offer |-> off, SKU |-> sku ] :
      id  \in {Nil, Ptr("/subscriptions/sub-0/images/custom"), Ptr("")},
      sub \in {Nil, Ptr("sub-1")},
      rg  \in {Nil, Ptr("img-rg")},
      gal \in {Nil, Ptr("gallery")},
      nm  \in {Nil, Ptr("ubuntu")},
      ver \in {Nil, Ptr("1.0.0")},
      pub \in {Nil, Ptr("Canonical")},
      off \in {Nil, Ptr("UbuntuServer")},
      sku \in {Nil, Ptr("18.04-LTS")} }

NoImage == [ ID |-> Nil, SubscriptionID |-> Nil, ResourceGroup |-> Nil,
             Gallery |-> Nil, Name |-> Nil, Version |-> Nil,
             Publisher |-> Nil, Offer |-> Nil, SKU |-> Nil ]

\* a zero compute.ImageReference
EmptyImageReference ==
    [ID |-> Nil, Publisher |-> Nil, Offer |-> Nil, Sku |-> Nil, Version |-> Nil]

\* generateSIGImageID with the gallery and the image name exchanged in the path
generateSIGImageID_Swapped(img) ==
    IF \/ img.SubscriptionID = Nil \/ img.ResourceGroup = Nil \/ img.Gallery = Nil
       \/ img.Name = Nil \/ img.Version = Nil
    THEN [id |-> "", err |-> NewError("Image coordinates incomplete")]
    ELSE [id |-> "/subscriptions/" \o img.SubscriptionID[1]
                  \o "/resourceGroups/" \o img.ResourceGroup[1]
                  \o "/providers/Microsoft.Compute/galleries/" \o img.Name[1]
                  \o "/images/" \o img.Gallery[1]
                  \o "/versions/" \o img.Version[1],
          err |-> NoError]

\* generateSIGImageID: the resource ID of the gallery image, or the error of
\* the first coordinate that is nil
generateSIGImageID(img) ==
    IF img.SubscriptionID = Nil THEN
        [id |-> "", err |-> NewError("Image subscription ID cannot be nil when specifying an image from an Azure Shared Image Gallery")]
    ELSE IF img.ResourceGroup = Nil THEN
        [id |-> "", err |-> NewError("Image resource group cannot be nil when specifying an image from an Azure Shared Image Gallery")]
    ELSE IF img.Gallery = Nil THEN
        [id |-> "", err |-> NewError("Image gallery cannot be nil when specifying an image from an Azure Shared Image Gallery")]
    ELSE IF img.Name = Nil THEN
        [id |-> "", err |-> NewError("Image name cannot be nil when specifying an image from an Azure Shared Image Gallery")]
    ELSE IF img.Version = Nil THEN
        [id |-> "", err |-> NewError("Image version cannot be nil when specifying an image from an Azure Shared Image Gallery")]
    ELSE
        [id |-> "/subscriptions/" \o img.SubscriptionID[1]
                  \o "/resourceGroups/" \o img.ResourceGroup[1]
                  \o "/providers/Microsoft.Compute/galleries/" \o img.Gallery[1]
                  \o "/images/" \o img.Name[1]
                  \o "/versions/" \o img.Version[1],
         err |-> NoError]

\* generateImagePlan without the check of the SKU
generateImagePlan_NoSKUCheck(img) ==
    IF img.Publisher = Nil THEN
        [ref |-> Nil, err |-> NewError("Image reference cannot be generated, as Publisher field is missing")]
    ELSE IF img.Offer = Nil THEN
        [ref |-> Nil, err |-> NewError("Image reference cannot be generated, as Offer field is missing")]
    ELSE IF img.Version = Nil THEN
        [ref |-> Nil, err |-> NewError("Image reference cannot be generated, as Version field is missing")]
    ELSE
        [ref |-> Ptr([ ID |-> Nil, Publisher |-> img.Publisher, Offer |-> img.Offer,
                       Sku |-> img.SKU, Version |-> img.Version ]),
         err |-> NoError]

\* generateImagePlan: the marketplace reference, or the error of the first
\* field that is nil
generateImagePlan(img) ==
    IF img.Publisher = Nil THEN
        [ref |-> Nil, err |-> NewError("Image reference cannot be generated, as Publisher field is missing")]
    ELSE IF img.Offer = Nil THEN
        [ref |-> Nil, err |-> NewError("Image reference cannot be generated, as Offer field is missing")]
    ELSE IF img.SKU = Nil THEN
        [ref |-> Nil, err |-> NewError("Image reference cannot be generated, as SKU field is missing")]
    ELSE IF img.Version = Nil THEN
        [ref |-> Nil, err |-> NewError("Image reference cannot be generated, as Version field is missing")]
    ELSE
        [ref |-> Ptr([ ID |-> Nil, Publisher |-> img.Publisher, Offer |-> img.Offer,
                       Sku |-> img.SKU, Version |-> img.Version ]),
         err |-> NoError]

\* generateImageReference merging the marketplace fields into a reference
\* that carries the explicit ID
generateImageReference_Merged(img) ==
    IF img.ID # Nil THEN
        [ref |-> Ptr([ ID |-> img.ID, Publisher |-> img.Publisher, Offer |-> img.Offer,
                       Sku |-> img.SKU, Version |-> img.Version ]),
         err |-> NoError]
    ELSE
        LET sig == generateSIGImageID(img)
        IN  IF sig.err = NoError THEN
                [ref |-> Ptr([EmptyImageReference EXCEPT !.ID = Ptr(sig.id)]),
                 err |-> NoError]
            ELSE
                generateImagePlan(img)

\* generateImageReference: explicit ID, else gallery image, else marketplace
generateImageReference(img) ==
    IF img.ID # Nil THEN
        [ref |-> Ptr([EmptyImageReference EXCEPT !.ID = img.ID]), err |-> NoError]
    ELSE
        LET sig == generateSIGImageID(img)
        IN  IF sig.err = NoError THEN
                [ref |-> Ptr([EmptyImageReference EXCEPT !.ID = Ptr(sig.id)]),
                 err |-> NoError]
            ELSE
                generateImagePlan(img)

----------------------------------------------------------------------------
(* virtualmachines: the Spec, the scope and the provider's answers *)

\* the number of steps of a run: calls of the service and changes of the
\* network interface
MaxOps == 2

CustomImageID == Ptr("/subscriptions/sub-0/images/custom")

\* the image descriptors the machine Specs use: explicit ID, gallery image,
\* marketplace image, and two that resolve to nothing (a publisher alone;
\* some gallery coordinates with some marketplace fields)
VMImages ==
    { [NoImage EXCEPT !.ID = CustomImageID],
      [NoImage EXCEPT !.SubscriptionID = Ptr("sub-1"), !.ResourceGroup = Ptr("img-rg"),
                      !.Gallery = Ptr("gallery"), !.Name = Ptr("ubuntu"),
                      !.Version = Ptr("1.0.0")],
      [NoImage EXCEPT !.Publisher = Ptr("Canonical"), !.Offer = Ptr("UbuntuServer"),
                      !.SKU = Ptr("18.04-LTS"), !.Version = Ptr("1.0.0")],
      [NoImage EXCEPT !.Publisher = Ptr("Canonical")],
      [NoImage EXCEPT !.Gallery = Ptr("gallery"), !.Name = Ptr("ubuntu"),
                      !.Publisher = Ptr("Canonical"), !.Offer = Ptr("UbuntuServer")] }

SSHKeys == {"", "ssh-rsa AAAAB3Nza"}

\* The zone only enters the payload: the Specs with an explicit image ID
\* are unzoned and the others are in zone 1, so both cases occur.
ZoneOf(i) == IF i.ID = Nil THEN "1" ELSE ""

VMSpecs ==
    { [ Name |-> "vm0", NICName |-> "vm0-nic", SSHKeyData |-> k,
        Size |-> "Standard_B2ms", Zone |-> ZoneOf(i), Image |-> i,
        OSDisk |-> [ OSType |-> "Linux", DiskSizeGB |-> 30,
                     ManagedDisk |-> [StorageAccountType |-> "Premium_LRS"] ],
        CustomData |-> "I2Nsb3VkLWNvbmZpZw==" ] :
      k \in SSHKeys, i \in VMImages }

\* what s.Scope and s.MachineScope answer
Scope == [ ResourceGroup |-> "cluster-rg", Location |-> "westus2",
           ClusterName |-> "cluster0", MachineName |-> "machine0",
           Role |-> "node" ]

DefaultUserName == "capi"

NICIDs == {Ptr("/nic/vm0-nic-a"), Ptr("/nic/vm0-nic-b")}

\* what networkinterfaces.Service.Get may answer for the state of the NIC
NICAnswers(n) == IF n = Nil THEN {"notfound"} ELSE {"ok", "badtype", "error"}

\* what rsa.GenerateKey and ssh.NewPublicKey may produce
KeyOutcomes == {"rsa-error", "ssh-error", "ssh-rsa GENERATED1", "ssh-rsa GENERATED2"}

\* the length Reconcile asks GenerateRandomString for
PasswordBytes == 32

\* what the secure random source may produce for the password: its error, or
\* the URL-safe base64 encoding of PasswordBytes random bytes
RandomOutcomes == {"error", "JTA7RlFcZ3J9iJOeqbS_ytXg6_YBDBciLThDTllkb3o=", "SlVga3aBjJeirbjDztnk7_oFEBsmMTxHUl1oc36JlJ8="}

\* what a submission (CreateOrUpdate) may answer
SubmitAnswers == {"ok", "error"}

\* what Client.Delete may answer for the state of the machine
DeleteAnswers(vm) == IF vm = Nil THEN {"notfound", "error"} ELSE {"ok", "error"}

\* what future.WaitForCompletionRef and future.Result may answer
FutureAnswers == {"ok", "error"}

ProviderError == NewError("provider error")

\* errors.Wrap / errors.Wrapf
Wrap(e, m) == [e EXCEPT !.msg = m \o ": " \o e.msg]

\* the outcome of one service call
Outcome(op, ok, e, calls, payload, submit) ==
    [ op |-> op, variantOK |-> ok, err |-> e, calls |-> calls,
      payload |-> payload, submit |-> submit ]

\* what Service.Get returns when it has not been called
NoResult == [kind |-> "none"]

\* the nil interface value Service.Get returns
NilResult == [kind |-> "nil"]

\* what Client.Get may answer for the state of the machine
GetAnswers(vm) == IF vm = Nil THEN {"notfound", "error"} ELSE {"ok", "error"}

\* the steps an operation takes that leave the process
RemoteCalls == {"NICGet", "CreateOrUpdate", "Delete", "Get", "WaitForCompletion", "Result"}

NoCall == [ op |-> "none", variantOK |-> TRUE, err |-> NoError, calls |-> <<>>,
            answers |-> <<>>, result |-> NoResult,
            payload |-> Nil, submit |-> "none",
            before |-> [vm |-> Nil, nic |-> Nil],
            after  |-> [vm |-> Nil, nic |-> Nil] ]

----------------------------------------------------------------------------
(* virtualmachines.Service *)

\* generateStorageProfile
generateStorageProfile(spec) ==
    LET r == generateImageReference(spec.Image)
    IN  IF r.err # NoError THEN [profile |-> Nil, err |-> r.err]
        ELSE [ profile |->
                 Ptr([ OsDisk |-> [ Name |-> spec.Name \o "_OSDisk",
                                    OsType |-> spec.OSDisk.OSType,
                                    CreateOption |-> "FromImage",
                                    DiskSizeGB |-> spec.OSDisk.DiskSizeGB,
                                    ManagedDisk |->
                                      [StorageAccountType |->
                                         spec.OSDisk.ManagedDisk.StorageAccountType] ],
                       ImageReference |-> r.ref ]),
               err |-> NoError ]

\* base64.URLEncoding.EncodeToString: the length of the encoding of n bytes
EncodedLen(n) == 4 * ((n + 2) \div 3)

\* GenerateRandomString with the error of rand.Read dropped: the encoding of
\* the buffer as rand.Read left it
GenerateRandomString_ErrorDropped(outcome) ==
    IF outcome = "error"
    THEN [str |-> "AAAAAAAAAAAAAAAAAAAAAAAAAAAAAAAAAAAAAAAAAAA=", err |-> NoError]
    ELSE [str |-> outcome, err |-> NoError]

\* GenerateRandomString: the encoded bytes, or the error of the random source
GenerateRandomString(outcome) ==
    IF outcome = "error" THEN [str |-> "", err |-> NewError("rand.Read failed")]
    ELSE [str |-> outcome, err |-> NoError]

\* the compute.VirtualMachine Reconcile submits
VirtualMachine(spec, storageProfile, nicID, sshKeyData, randomPassword) ==
    [ Location |-> Scope.Location,
      Tags |-> [ ClusterName |-> Scope.ClusterName, Lifecycle |-> "owned",
                 Name |-> Scope.MachineName, Role |-> Scope.Role,
                 CloudProviderTag |-> "owned" ],
      VMSize |-> spec.Size,
      StorageProfile |-> storageProfile,
      OsProfile |-> [ ComputerName |-> spec.Name,
                      AdminUsername |-> DefaultUserName,
                      AdminPassword |-> randomPassword,
                      CustomData |-> spec.CustomData,
                      SSHPublicKeys |->
                        << [ Path |-> "/home/" \o DefaultUserName \o "/.ssh/authorized_keys",
                             KeyData |-> sshKeyData ] >> ],
      NetworkInterfaces |-> << [ID |-> nicID, Primary |-> TRUE] >>,
      Zones |-> IF spec.Zone # "" THEN Ptr(<<spec.Zone>>) ELSE Nil ]

\* the SSH key of the attempt: the Spec's, or a generated one.  e.key is what
\* the key generation produces when it is run.
SSHKeyStep(spec, e) ==
    IF spec.SSHKeyData # "" THEN
        [key |-> spec.SSHKeyData, err |-> NoError, calls |-> <<>>]
    ELSE IF e.key = "rsa-error" THEN
        [key |-> "", err |-> Wrap(NewError("rsa: key generation failed"), "Failed to generate private key"),
         calls |-> <<"rsa.GenerateKey">>]
    ELSE IF e.key = "ssh-error" THEN
        [key |-> "", err |-> Wrap(NewError("ssh: unsupported key"), "Failed to generate public key"),
         calls |-> <<"rsa.GenerateKey", "ssh.NewPublicKey">>]
    ELSE
        [key |-> e.key, err |-> NoError, calls |-> <<"rsa.GenerateKey", "ssh.NewPublicKey">>]

\* the submission and the two steps on the future with the error of
\* future.Result dropped
SubmitStep_ResultErrorDropped(vm, calls, e) ==
    IF e.submit = "error" THEN
        Outcome("Reconcile", TRUE, Wrap(ProviderError, "cannot create vm"),
                calls \o <<"CreateOrUpdate">>, Ptr(vm), "error")
    ELSE IF e.wait = "error" THEN
        Outcome("Reconcile", TRUE,
                Wrap(ProviderError, "cannot get the vm create or update future response"),
                calls \o <<"CreateOrUpdate", "WaitForCompletion">>, Ptr(vm), "ok")
    ELSE
        Outcome("Reconcile", TRUE, NoError,
                calls \o <<"CreateOrUpdate", "WaitForCompletion", "Result">>,
                Ptr(vm), "ok")

\* the submission and the two steps on the future, in Reconcile
SubmitStep(vm, calls, e) ==
    IF e.submit = "error" THEN
        Outcome("Reconcile", TRUE, Wrap(ProviderError, "cannot create vm"),
                calls \o <<"CreateOrUpdate">>, Ptr(vm), "error")
    ELSE IF e.wait = "error" THEN
        Outcome("Reconcile", TRUE,
                Wrap(ProviderError, "cannot get the vm create or update future response"),
                calls \o <<"CreateOrUpdate", "WaitForCompletion">>, Ptr(vm), "ok")
    ELSE IF e.result = "error" THEN
        Outcome("Reconcile", TRUE, ProviderError,
                calls \o <<"CreateOrUpdate", "WaitForCompletion", "Result">>,
                Ptr(vm), "ok")
    ELSE
        Outcome("Reconcile", TRUE, NoError,
                calls \o <<"CreateOrUpdate", "WaitForCompletion", "Result">>,
                Ptr(vm), "ok")

\* Service.Reconcile going on after a failed fetch of the network interface
Reconcile_FetchErrorIgnored(spec, nicID, e) ==
    IF ~e.variantOK THEN
        Outcome("Reconcile", FALSE, NewError("invalid vm specification"), <<>>, Nil, "none")
    ELSE
    LET sp == generateStorageProfile(spec)
    IN  IF sp.err # NoError THEN
            Outcome("Reconcile", TRUE, sp.err, <<"generateStorageProfile">>, Nil, "none")
        ELSE
        LET k == SSHKeyStep(spec, e)
        IN  IF k.err # NoError THEN
                Outcome("Reconcile", TRUE, k.err,
                        <<"generateStorageProfile", "NICGet">> \o k.calls, Nil, "none")
            ELSE
            LET pw == GenerateRandomString(e.random)
                calls == <<"generateStorageProfile", "NICGet">> \o k.calls \o <<"rand.Read">>
            IN  IF pw.err # NoError THEN
                    Outcome("Reconcile", TRUE, Wrap(pw.err, "failed to generate random string"),
                            calls, Nil, "none")
                ELSE
                    SubmitStep(VirtualMachine(spec, sp.profile, nicID, k.key, pw.str),
                               calls, e)

\* Service.Reconcile resolving the image after the fetch of the network
\* interface
Reconcile_FetchBeforeImage(spec, nicID, e) ==
    IF ~e.variantOK THEN
        Outcome("Reconcile", FALSE, NewError("invalid vm specification"), <<>>, Nil, "none")
    ELSE
    LET sp == generateStorageProfile(spec)
    IN  IF sp.err # NoError /\ e.nic = "ok" THEN
            Outcome("Reconcile", TRUE, sp.err, <<"NICGet", "generateStorageProfile">>,
                    Nil, "none")
        ELSE IF e.nic \in {"notfound", "error"} THEN
            Outcome("Reconcile", TRUE, NewError("nic " \o e.nic),
                    <<"generateStorageProfile", "NICGet">>, Nil, "none")
        ELSE IF e.nic = "badtype" THEN
            Outcome("Reconcile", TRUE, NewError("error getting network security group"),
                    <<"generateStorageProfile", "NICGet">>, Nil, "none")
        ELSE
        LET k == SSHKeyStep(spec, e)
        IN  IF k.err # NoError THEN
                Outcome("Reconcile", TRUE, k.err,
                        <<"generateStorageProfile", "NICGet">> \o k.calls, Nil, "none")
            ELSE
            LET pw == GenerateRandomString(e.random)
                calls == <<"generateStorageProfile", "NICGet">> \o k.calls \o <<"rand.Read">>
            IN  IF pw.err # NoError THEN
                    Outcome("Reconcile", TRUE, Wrap(pw.err, "failed to generate random string"),
                            calls, Nil, "none")
                ELSE
                    SubmitStep(VirtualMachine(spec, sp.profile, nicID, k.key, pw.str),
                               calls, e)

\* Service.Reconcile on spec, the NIC being nicID, under the answers e of the
\* provider and of the random source.  calls lists the steps of the attempt
\* in the order the code takes them.
Reconcile(spec, nicID, e) ==
    IF ~e.variantOK THEN
        Outcome("Reconcile", FALSE, NewError("invalid vm specification"), <<>>, Nil, "none")
    ELSE
    LET sp == generateStorageProfile(spec)
    IN  IF sp.err # NoError THEN
            Outcome("Reconcile", TRUE, sp.err, <<"generateStorageProfile">>, Nil, "none")
        ELSE IF e.nic \in {"notfound", "error"} THEN
            Outcome("Reconcile", TRUE, NewError("nic " \o e.nic),
                    <<"generateStorageProfile", "NICGet">>, Nil, "none")
        ELSE IF e.nic = "badtype" THEN
            Outcome("Reconcile", TRUE, NewError("error getting network security group"),
                    <<"generateStorageProfile", "NICGet">>, Nil, "none")
        ELSE
        LET k == SSHKeyStep(spec, e)
        IN  IF k.err # NoError THEN
                Outcome("Reconcile", TRUE, k.err,
                        <<"generateStorageProfile", "NICGet">> \o k.calls, Nil, "none")
            ELSE
            LET pw == GenerateRandomString(e.random)
                calls == <<"generateStorageProfile", "NICGet">> \o k.calls \o <<"rand.Read">>
            IN  IF pw.err # NoError THEN
                    Outcome("Reconcile", TRUE, Wrap(pw.err, "failed to generate random string"),
                            calls, Nil, "none")
                ELSE
                    SubmitStep(VirtualMachine(spec, sp.profile, nicID, k.key, pw.str),
                               calls, e)

\* Delete without the not-found case: every submission error is surfaced
Delete_NotFoundSurfaced(spec, e) ==
    IF ~e.variantOK THEN
        Outcome("Delete", FALSE, NewError("invalid vm Specification"), <<>>, Nil, "none")
    ELSE IF e.submit \in {"notfound", "error"} THEN
        Outcome("Delete", TRUE,
                Wrap(ProviderError, "failed to delete vm " \o spec.Name
                                     \o " in resource group " \o Scope.ResourceGroup),
                <<"Delete">>, Nil, e.submit)
    ELSE IF e.wait = "error" THEN
        Outcome("Delete", TRUE, Wrap(ProviderError, "cannot delete, future response"),
                <<"Delete", "WaitForCompletion">>, Nil, "ok")
    ELSE
        Outcome("Delete", TRUE, IF e.result = "error" THEN ProviderError ELSE NoError,
                <<"Delete", "WaitForCompletion", "Result">>, Nil, "ok")

\* Service.Delete with the error of future.Result dropped
Delete_ResultErrorDropped(spec, e) ==
    IF ~e.variantOK THEN
        Outcome("Delete", FALSE, NewError("invalid vm Specification"), <<>>, Nil, "none")
    ELSE IF e.submit = "notfound" THEN
        Outcome("Delete", TRUE, NoError, <<"Delete">>, Nil, "notfound")
    ELSE IF e.submit = "error" THEN
        Outcome("Delete", TRUE,
                Wrap(ProviderError, "failed to delete vm " \o spec.Name
                                     \o " in resource group " \o Scope.ResourceGroup),
                <<"Delete">>, Nil, "error")
    ELSE IF e.wait = "error" THEN
        Outcome("Delete", TRUE, Wrap(ProviderError, "cannot delete, future response"),
                <<"Delete", "WaitForCompletion">>, Nil, "ok")
    ELSE
        Outcome("Delete", TRUE, NoError,
                <<"Delete", "WaitForCompletion", "Result">>, Nil, "ok")

\* Service.Delete on spec under the answers e of the provider
Delete(spec, e) ==
    IF ~e.variantOK THEN
        Outcome("Delete", FALSE, NewError("invalid vm Specification"), <<>>, Nil, "none")
    ELSE IF e.submit = "notfound" THEN
        Outcome("Delete", TRUE, NoError, <<"Delete">>, Nil, "notfound")
    ELSE IF e.submit = "error" THEN
        Outcome("Delete", TRUE,
                Wrap(ProviderError, "failed to delete vm " \o spec.Name
                                     \o " in resource group " \o Scope.ResourceGroup),
                <<"Delete">>, Nil, "error")
    ELSE IF e.wait = "error" THEN
        Outcome("Delete", TRUE, Wrap(ProviderError, "cannot delete, future response"),
                <<"Delete", "WaitForCompletion">>, Nil, "ok")
    ELSE
        Outcome("Delete", TRUE, IF e.result = "error" THEN ProviderError ELSE NoError,
                <<"Delete", "WaitForCompletion", "Result">>, Nil, "ok")

\* converters.SDKToVM: the machine as the caller's type
SDKToVM(vm) ==
    [ kind |-> "infrav1.VM", Name |-> vm.OsProfile.ComputerName,
      VMSize |-> vm.VMSize, Zones |-> vm.Zones ]

\* the outcome of Service.Get: the returned value and the returned error
GetOutcome(ok, e, calls, result, answer) ==
    [ op |-> "Get", variantOK |-> ok, err |-> e, calls |-> calls,
      payload |-> Nil, submit |-> answer, result |-> result ]

\* Service.Get without the not-found case: every error of Client.Get is
\* returned in the same way
Get_NotFoundAsFailure(spec, vm, e) ==
    IF ~e.variantOK THEN
        GetOutcome(FALSE, NewError("invalid vm specification"), <<>>,
                   [kind |-> "compute.VirtualMachine", vm |-> Nil], "none")
    ELSE IF e.get \in {"notfound", "error"} THEN
        GetOutcome(TRUE, ProviderError, <<"Get">>,
                   [kind |-> "compute.VirtualMachine", vm |-> Nil], e.get)
    ELSE
        GetOutcome(TRUE, NoError, <<"Get">>, SDKToVM(vm[1]), "ok")

\* Service.Get on spec, the machine at the provider being vm, under the
\* answer e.get of Client.Get
Get(spec, vm, e) ==
    IF ~e.variantOK THEN
        GetOutcome(FALSE, NewError("invalid vm specification"), <<>>,
                   [kind |-> "compute.VirtualMachine", vm |-> Nil], "none")
    ELSE IF e.get = "notfound" THEN
        GetOutcome(TRUE, Wrap(NewError("404 ResourceNotFound"), "vm " \o spec.Name \o " not found"),
                   <<"Get">>, NilResult, "notfound")
    ELSE IF e.get = "error" THEN
        GetOutcome(TRUE, ProviderError, <<"Get">>,
                   [kind |-> "compute.VirtualMachine", vm |-> Nil], "error")
    ELSE
        GetOutcome(TRUE, NoError, <<"Get">>, SDKToVM(vm[1]), "ok")

----------------------------------------------------------------------------
(* Initial values of the parts a specification leaves alone *)

NoRet == [params |-> Nil, err |-> NoError]

NoImageRet == [ref |-> Nil, err |-> NoError]

\* no Spec has been constructed
NoSpec == Nil

PoolIdle ==
    /\ s = NoSpec /\ s0 = NoSpec /\ existing = NoExisting
    /\ ret = NoRet /\ called = FALSE /\ remotePool = Nil

ImageIdle == image = NoImage /\ imageRet = NoImageRet /\ resolved = FALSE

VMIdle ==
    /\ vmSpec = NoSpec /\ remoteVM = Nil /\ nic = Nil
    /\ prev = NoCall /\ last = NoCall /\ nOps = 0

----------------------------------------------------------------------------
(* The agent pool specification: a Spec is constructed and Parameters is   *)
(* called on it with some existing value.                                  *)

InitPool ==
    /\ s \in AgentPoolSpecs
    /\ s0 = s
    /\ existing = NoExisting
    /\ ret = NoRet
    /\ called = FALSE
    /\ remotePool = Nil
    /\ ImageIdle /\ VMIdle

CallParameters ==
    /\ s # NoSpec
    /\ ~called
    /\ \E ex \in ExistingArgs :
          LET r == Parameters(s, ex)
          IN  /\ existing' = ex
              /\ ret' = [params |-> r.params, err |-> r.err]
              /\ s' = r.s
    /\ called' = TRUE
    /\ UNCHANGED <<s0, remotePool, imageVars, vmVars>>

NextPool == CallParameters

SpecPool == InitPool /\ [][NextPool]_vars

----------------------------------------------------------------------------
(* The agent pool reconciliation loop: the caller runs attempt after       *)
(* attempt for one declared configuration.  Each attempt constructs the    *)
(* Spec afresh, fetches the pool, calls Parameters on it and, when there   *)
(* is a payload, submits it and waits; the provider applies the payload    *)
(* and ends in the Succeeded state.  The loop itself is outside the two    *)
(* source files and follows the description of the protocol.               *)

\* the count the provider gives a new pool when the payload names none
DefaultCount == 1

\* the pool after the provider has applied payload to pool cur and the
\* operation has completed: every field is the payload's, but for the count,
\* which a pool always has and which stays as it is when the payload names
\* none
AppliedPool(cur, payload) ==
    [ ProvisioningState |-> "Succeeded",
      Count |-> IF payload.Count # Nil THEN payload.Count ELSE cur.Count,
      OrchestratorVersion |-> payload.OrchestratorVersion,
      Mode |-> payload.Mode,
      EnableAutoScaling |-> payload.EnableAutoScaling,
      MinCount |-> payload.MinCount,
      MaxCount |-> payload.MaxCount,
      NodeLabels |-> payload.NodeLabels,
      NodeTaints |-> payload.NodeTaints ]

\* what the provider starts a new pool from
NewPool == [NoPool EXCEPT !.Count = Ptr(DefaultCount)]

\* the pools the loop may find at its start: Parameters reads no taint of
\* the pool but to copy it to both sides of the diff, and handles the three
\* terminal states alike
LoopPools ==
    {p \in AgentPools : /\ p.NodeTaints = Nil
                        /\ p.ProvisioningState \in {"Succeeded", "Updating"}}

InitLoop ==
    /\ s \in AgentPoolSpecs
    /\ s0 = s
    /\ remotePool \in {Nil} \cup {Ptr(p) : p \in LoopPools}
    /\ existing = NoExisting
    /\ ret = NoRet
    /\ called = FALSE
    /\ ImageIdle /\ VMIdle

\* one reconciliation attempt
ReconcileAttempt ==
    /\ s0 # NoSpec
    /\ LET ex == IF remotePool = Nil THEN NoExisting ELSE ExistingOf(remotePool[1])
           r  == Parameters(s0, ex)
       IN  /\ existing' = ex
           /\ ret' = [params |-> r.params, err |-> r.err]
           /\ s' = r.s
           /\ remotePool' =
                 IF r.params = Nil THEN remotePool
                 ELSE Ptr(AppliedPool(IF remotePool = Nil THEN NewPool ELSE remotePool[1],
                                      r.params[1]))
    /\ called' = TRUE
    /\ UNCHANGED <<s0, imageVars, vmVars>>

\* an operation of the provider on the pool comes to its end
RemoteSettles ==
    /\ remotePool # Nil
    /\ remotePool[1].ProvisioningState \notin TerminalStates
    /\ remotePool' = Ptr([remotePool[1] EXCEPT !.ProvisioningState = "Succeeded"])
    /\ UNCHANGED <<s, s0, existing, ret, called, imageVars, vmVars>>

NextLoop == ReconcileAttempt \/ RemoteSettles

SpecLoop == InitLoop /\ [][NextLoop]_vars

----------------------------------------------------------------------------
(* The image specification: generateImageReference on some descriptor.     *)

InitImage ==
    /\ image \in Images
    /\ imageRet = NoImageRet
    /\ resolved = FALSE
    /\ PoolIdle /\ VMIdle

ResolveImage ==
    /\ ~resolved
    /\ imageRet' = generateImageReference(image)
    /\ resolved' = TRUE
    /\ UNCHANGED <<image, poolVars, vmVars>>

NextImage == ResolveImage

SpecImage == InitImage /\ [][NextImage]_vars

----------------------------------------------------------------------------
(* The virtual machine specification: the caller invokes Reconcile and     *)
(* Delete with the machine's Spec; the provider holds the machine and its  *)
(* network interface, which another reconciler creates and replaces.       *)

\* what the step call of an operation was answered, under the answers e
AnswerOf(call, out, e) ==
    CASE call = "generateStorageProfile" ->
           IF out.calls = <<"generateStorageProfile">> THEN "error" ELSE "ok"
      [] call = "NICGet" -> e.nic
      [] call = "rsa.GenerateKey" -> IF e.key = "rsa-error" THEN "error" ELSE "ok"
      [] call = "ssh.NewPublicKey" -> IF e.key = "ssh-error" THEN "error" ELSE "ok"
      [] call = "rand.Read" -> IF e.random = "error" THEN "error" ELSE "ok"
      [] call \in {"CreateOrUpdate", "Delete"} -> e.submit
      [] call = "WaitForCompletion" -> e.wait
      [] call = "Result" -> e.result
      [] call = "Get" -> e.get

\* the record of one operation: what it returned, the steps it took and
\* what each was answered, and the provider's state before and after
Logged(out, e, before, after) ==
    [ op |-> out.op, variantOK |-> out.variantOK, err |-> out.err,
      calls |-> out.calls,
      answers |-> [i \in 1..Len(out.calls) |-> AnswerOf(out.calls[i], out, e)],
      result |-> IF out.op = "Get" THEN out.result ELSE NoResult,
      payload |-> out.payload, submit |-> out.submit,
      before |-> before, after |-> after ]

\* the machine an earlier run of the service left at the provider
PriorVM(spec) ==
    VirtualMachine(spec, generateStorageProfile(spec).profile,
                   CHOOSE n \in NICIDs : TRUE,
                   IF spec.SSHKeyData # "" THEN spec.SSHKeyData ELSE "ssh-rsa GENERATED0",
                   "AAsWISw3Qk1YY255hI-apbC7xtHc5_L9CBMeKTQ_SlU=")

InitVM ==
    /\ vmSpec \in VMSpecs
    /\ remoteVM \in {Nil, Ptr(PriorVM(vmSpec))}
    /\ nic \in {Nil} \cup NICIDs
    /\ prev = NoCall /\ last = NoCall /\ nOps = 0
    /\ PoolIdle /\ ImageIdle

\* The answers one Reconcile attempt can meet: an answer that the attempt
\* never asks for (it ended before) is held at its first value.
ReconcileAnswers(nicAnswers) ==
    { e \in [ variantOK : BOOLEAN, nic : nicAnswers, key : KeyOutcomes,
              random : RandomOutcomes, submit : SubmitAnswers,
              wait : FutureAnswers, result : FutureAnswers ] :
        /\ ~e.variantOK => e.nic \in {"notfound", "error"}
        /\ e.nic # "ok" => e.key = "rsa-error"
        /\ e.key \in {"rsa-error", "ssh-error"} => e.random = "error"
        /\ e.random = "error" => e.submit = "error"
        /\ e.submit # "ok" => e.wait = "error"
        /\ e.wait # "ok" => e.result = "error" }

ReconcileAnswersNoNIC == ReconcileAnswers(NICAnswers(Nil))

ReconcileAnswersNIC == ReconcileAnswers(NICAnswers(CHOOSE n \in NICIDs : TRUE))

\* with a key in the Spec the key generation is never run
ReconcileAnswersNICKeyed == {e \in ReconcileAnswersNIC : e.key = "ssh-rsa GENERATED1"}

\* the answers a Reconcile of spec can meet when the NIC is n
ReconcileAnswersOf(spec, n) ==
    IF n = Nil THEN ReconcileAnswersNoNIC
    ELSE IF spec.SSHKeyData # "" THEN
        ReconcileAnswersNICKeyed \cup {e \in ReconcileAnswersNIC : e.nic # "ok"}
    ELSE ReconcileAnswersNIC

\* The answers one Delete can meet, pruned in the same way.
DeleteAnswersOf(submitAnswers) ==
    { e \in [ variantOK : BOOLEAN, submit : submitAnswers,
              wait : FutureAnswers, result : FutureAnswers ] :
        /\ ~e.variantOK => e.submit = "error"
        /\ e.submit # "ok" => e.wait = "error"
        /\ e.wait # "ok" => e.result = "error" }

DeleteAnswersNoVM == DeleteAnswersOf(DeleteAnswers(Nil))

DeleteAnswersVM == DeleteAnswersOf(DeleteAnswers(Ptr("vm")))

\* The answers one Get can meet.
GetAnswersOf(getAnswers) ==
    { e \in [variantOK : BOOLEAN, get : getAnswers] :
        ~e.variantOK => e.get = "error" }

GetAnswersNoVM == GetAnswersOf(GetAnswers(Nil))

GetAnswersVM == GetAnswersOf(GetAnswers(Ptr("vm")))

DoReconcile ==
    /\ vmSpec # NoSpec
    /\ nOps < MaxOps
    /\ \E e \in ReconcileAnswersOf(vmSpec, nic) :
          LET out == Reconcile(vmSpec, nic, e)
              vm  == IF out.submit = "ok" THEN out.payload ELSE remoteVM
          IN  /\ remoteVM' = vm
              /\ last' = Logged(out, e, [vm |-> remoteVM, nic |-> nic],
                                     [vm |-> vm, nic |-> nic])
    /\ prev' = last
    /\ nOps' = nOps + 1
    /\ UNCHANGED <<vmSpec, nic, poolVars, imageVars>>

DoDelete ==
    /\ vmSpec # NoSpec
    /\ nOps < MaxOps
    /\ \E e \in (IF remoteVM = Nil THEN DeleteAnswersNoVM ELSE DeleteAnswersVM) :
          LET out == Delete(vmSpec, e)
              vm  == IF out.submit = "ok" THEN Nil ELSE remoteVM
          IN  /\ remoteVM' = vm
              /\ last' = Logged(out, e, [vm |-> remoteVM, nic |-> nic],
                                     [vm |-> vm, nic |-> nic])
    /\ prev' = last
    /\ nOps' = nOps + 1
    /\ UNCHANGED <<vmSpec, nic, poolVars, imageVars>>

DoGet ==
    /\ vmSpec # NoSpec
    /\ nOps < MaxOps
    /\ \E e \in (IF remoteVM = Nil THEN GetAnswersNoVM ELSE GetAnswersVM) :
          last' = Logged(Get(vmSpec, remoteVM, e), e,
                         [vm |-> remoteVM, nic |-> nic],
                         [vm |-> remoteVM, nic |-> nic])
    /\ prev' = last
    /\ nOps' = nOps + 1
    /\ UNCHANGED <<vmSpec, remoteVM, nic, poolVars, imageVars>>

\* the network interface is created, deleted or replaced
NICChange ==
    /\ vmSpec # NoSpec
    /\ nOps < MaxOps
    /\ \E n \in ({Nil} \cup NICIDs) \ {nic} : nic' = n
    /\ nOps' = nOps + 1
    /\ UNCHANGED <<vmSpec, remoteVM, prev, last, poolVars, imageVars>>

NextVM == DoReconcile \/ DoDelete \/ DoGet \/ NICChange

SpecVM == InitVM /\ [][NextVM]_vars

----------------------------------------------------------------------------
(* The callers of both components: a run drives either the agent pool Spec *)
(* or the virtual machine service.                                         *)

InitCalls == InitPool \/ InitVM

NextCalls == NextPool \/ NextVM

SpecCalls == InitCalls /\ [][NextCalls]_vars

----------------------------------------------------------------------------
(* Properties *)

Range(seq) == {seq[i] : i \in 1..Len(seq)}

\* the existing pool of the last Parameters call
Pool == existing.pool

ExistingIsTerminalPool ==
    /\ called
    /\ existing.kind = "AgentPool"
    /\ Pool.ProvisioningState \in {"Succeeded", "Failed", "Canceled"}

\* C1: a Reconcile that follows a successful Reconcile, with the Spec and
\* the remote state unchanged in between, is a no-op: it submits no
\* CreateOrUpdate.
C1_SecondReconcileIsNoOp ==
    ( /\ prev.op = "Reconcile" /\ prev.variantOK /\ prev.err = NoError
      /\ last.op = "Reconcile" /\ last.variantOK
      /\ last.before = prev.after )
    => "CreateOrUpdate" \notin Range(last.calls)

\* C2: when the Delete submission answers not-found, Delete returns nil
\* and calls neither WaitForCompletion nor Result; so a Delete of a machine
\* that is absent, whose submission is answered (not-found), succeeds.
C2_DeleteNotFoundSucceeds ==
    /\ (last.op = "Delete" /\ last.submit = "notfound")
         => /\ last.err = NoError
            /\ last.calls = <<"Delete">>
            /\ last.after = last.before
    /\ (last.op = "Delete" /\ last.variantOK /\ last.before.vm = Nil
          /\ last.submit # "error")
         => last.err = NoError

\* C2 witness: a Delete directly after a successful Delete of an existing
\* machine is answered not-found and returns nil.
C2_DeleteAfterDelete ==
    /\ prev.op = "Delete" /\ prev.submit = "ok" /\ prev.err = NoError
    /\ prev.before.vm # Nil
    /\ last.op = "Delete" /\ last.submit = "notfound" /\ last.err = NoError

\* C3: for an existing pool in a non-terminal provisioning state Parameters
\* returns a Transient error with a retry delay of 20 seconds and no
\* payload; for a pool in a terminal state it never returns that error.
C3_TerminalStateGate ==
    (called /\ existing.kind = "AgentPool")
    => IF Pool.ProvisioningState \in {"Succeeded", "Failed", "Canceled"}
       THEN ret.err.type # "Transient"
       ELSE /\ ret.err.type = "Transient"
            /\ ret.err.requeueAfter = 20
            /\ ret.err.requeueAfter # 0
            /\ ret.params = Nil

\* C3 witness: Parameters was called on a pool that is Updating and
\* answered with the Transient error.
C3_GateTaken ==
    /\ called /\ existing.kind = "AgentPool"
    /\ Pool.ProvisioningState = "Updating"
    /\ ret.err.type = "Transient"

\* version, mode, autoscaling flag, min count, max count and labels of the
\* Spec (as constructed) and of the existing pool are the same
AgreeOnNonCountFields ==
    /\ s0.Version = Pool.OrchestratorVersion
    /\ s0.Mode = Pool.Mode
    /\ s0.EnableAutoScaling = Pool.EnableAutoScaling
    /\ s0.MinCount = Pool.MinCount
    /\ s0.MaxCount = Pool.MaxCount
    /\ s0.NodeLabels = Pool.NodeLabels

\* C4: with autoscaling enabled in the Spec and the existing pool in a
\* terminal state, Parameters returns (nil, nil) exactly when the Spec and
\* the pool agree on the non-count compared fields, whatever the counts.
C4_AutoscalingCarveOut ==
    (ExistingIsTerminalPool /\ s0.EnableAutoScaling = Ptr(TRUE))
    => (AgreeOnNonCountFields <=> (ret.params = Nil /\ ret.err = NoError))

\* C4 witness: autoscaling is enabled, the desired and the existing count
\* differ, the other fields agree, and the call was a no-op.
C4_CountMismatchIgnored ==
    /\ ExistingIsTerminalPool /\ s0.EnableAutoScaling = Ptr(TRUE)
    /\ AgreeOnNonCountFields
    /\ Ptr(s0.Replicas) # Pool.Count
    /\ ret.params = Nil /\ ret.err = NoError

\* C5: every system-prefixed label of the existing pool that the Spec does
\* not declare is in the NodeLabels of an update payload, with its value.
C5_SystemLabelsPreserved ==
    (ExistingIsTerminalPool /\ ret.params # Nil)
    => \A k \in DOMAIN Pool.NodeLabels.kv :
          (IsAzureSystemNodeLabelKey(k) /\ k \notin DOMAIN s0.NodeLabels.kv)
          => /\ k \in DOMAIN ret.params[1].NodeLabels.kv
             /\ ret.params[1].NodeLabels.kv[k] = Pool.NodeLabels.kv[k]

AllFive(img) ==
    /\ img.SubscriptionID # Nil /\ img.ResourceGroup # Nil /\ img.Gallery # Nil
    /\ img.Name # Nil /\ img.Version # Nil

AllFour(img) ==
    /\ img.Publisher # Nil /\ img.Offer # Nil /\ img.SKU # Nil /\ img.Version # Nil

MarketplaceFieldsOf(ref) == {ref.Publisher, ref.Offer, ref.Sku, ref.Version}

\* C6: a descriptor with an explicit ID resolves, without error, to a
\* reference with that ID and no marketplace field; a resolved reference
\* carries either an ID only or the four marketplace fields only.
C6_ExplicitIDWins ==
    resolved =>
      /\ image.ID # Nil
           => /\ imageRet.err = NoError
              /\ imageRet.ref # Nil
              /\ imageRet.ref[1].ID = image.ID
              /\ MarketplaceFieldsOf(imageRet.ref[1]) = {Nil}
      /\ imageRet.ref # Nil
           => IF imageRet.ref[1].ID # Nil
              THEN MarketplaceFieldsOf(imageRet.ref[1]) = {Nil}
              ELSE Nil \notin MarketplaceFieldsOf(imageRet.ref[1])

\* C6 witness: the descriptor carries an explicit ID, complete gallery
\* coordinates and complete marketplace fields, and has been resolved.
C6_AllModesSupplied ==
    /\ resolved /\ image.ID # Nil /\ AllFive(image) /\ AllFour(image)
    /\ imageRet.ref # Nil

SIGPath ==
    "/subscriptions/sub-1/resourceGroups/img-rg/providers/Microsoft.Compute/galleries/gallery/images/ubuntu/versions/1.0.0"

\* C7: without an explicit ID the result is the gallery path exactly when
\* the five coordinates are present; otherwise the result is that of the
\* marketplace step and never the gallery step's error.
C7_SharedGalleryStep ==
    (resolved /\ image.ID = Nil) =>
      /\ AllFive(image)
           <=> (imageRet.err = NoError /\ imageRet.ref # Nil
                /\ imageRet.ref = Ptr([ ID |-> Ptr(SIGPath), Publisher |-> Nil,
                                        Offer |-> Nil, Sku |-> Nil, Version |-> Nil ]))
      /\ ~AllFive(image)
           => /\ imageRet = generateImagePlan(image)
              /\ imageRet.err # generateSIGImageID(image).err

\* C7 witness: only the five gallery coordinates are supplied and the
\* reference carries the path.
C7_GalleryResolved ==
    /\ resolved /\ image.ID = Nil /\ AllFive(image)
    /\ image.Publisher = Nil /\ image.Offer = Nil /\ image.SKU = Nil
    /\ imageRet.ref # Nil

MarketplaceFields == {"Publisher", "Offer", "SKU", "Version"}

\* C8: without an explicit ID and with incomplete gallery coordinates, the
\* result is the four-field marketplace reference when the four fields are
\* present, and otherwise no reference and an error naming a missing field.
C8_MarketplaceFallback ==
    (resolved /\ image.ID = Nil /\ ~AllFive(image)) =>
      IF AllFour(image)
      THEN /\ imageRet.err = NoError
           /\ imageRet.ref = Ptr([ ID |-> Nil, Publisher |-> image.Publisher,
                                   Offer |-> image.Offer, Sku |-> image.SKU,
                                   Version |-> image.Version ])
      ELSE /\ imageRet.ref = Nil
           /\ imageRet.err.type = "Error"
           /\ \E f \in MarketplaceFields :
                 /\ image[f] = Nil
                 /\ imageRet.err.msg =
                      "Image reference cannot be generated, as " \o f \o " field is missing"

\* C8 witness: only the SKU is missing among the marketplace fields, and
\* the error is returned.
C8_OnlySKUMissing ==
    /\ resolved /\ image.ID = Nil /\ ~AllFive(image)
    /\ image.Publisher # Nil /\ image.Offer # Nil /\ image.Version # Nil
    /\ image.SKU = Nil
    /\ imageRet.err.type = "Error"

\* C9: after Parameters returns, every field of the Spec is as before the
\* call.
C9_SpecNotMutated == called => s = s0

\* C10: two successive Reconcile attempts with the same Spec whose SSH key
\* data is set, with the same NIC, submit identical payloads.
C10_DeterministicPayload ==
    ( /\ prev.op = "Reconcile" /\ last.op = "Reconcile"
      /\ vmSpec.SSHKeyData # ""
      /\ prev.before.nic = last.before.nic
      /\ prev.payload # Nil /\ last.payload # Nil )
    => prev.payload = last.payload


\* the step of the recorded operation rec was taken and answered with a
AnsweredWith(rec, step, a) ==
    \E i \in 1..Len(rec.calls) : rec.calls[i] = step /\ rec.answers[i] = a

\* the steps of Reconcile that draw on the secure random source
SecretSteps == {"rsa.GenerateKey", "ssh.NewPublicKey", "rand.Read"}

\* C11: when the generation of the SSH key pair or of the random password
\* fails in a Reconcile attempt, the attempt returns a non-nil error and
\* submits no CreateOrUpdate; and a password that is submitted comes from a
\* read of the random source that succeeded, that is, GenerateRandomString
\* returned the encoding of all PasswordBytes random bytes.
C11_SecretFailureAborts ==
    last.op = "Reconcile" =>
      /\ (\E st \in SecretSteps : AnsweredWith(last, st, "error"))
           => /\ last.err # NoError
              /\ "CreateOrUpdate" \notin Range(last.calls)
              /\ last.after = last.before
      /\ "CreateOrUpdate" \in Range(last.calls)
           => /\ AnsweredWith(last, "rand.Read", "ok")
              /\ Len(last.payload[1].OsProfile.AdminPassword) = EncodedLen(PasswordBytes)

\* C11 witness: the random source failed when the password was read, after
\* the key pair had been generated.
C11_RandomSourceFailed ==
    /\ last.op = "Reconcile"
    /\ AnsweredWith(last, "ssh.NewPublicKey", "ok")
    /\ AnsweredWith(last, "rand.Read", "error")
    /\ last.err # NoError

\* C12: Get reports absence as an outcome of its own.  When Client.Get
\* answers not-found, Get returns no resource (the nil value) with the
\* not-found error wrapped as "vm <name> not found"; when Client.Get fails in
\* another way, Get returns that error with a non-nil value, never the nil
\* value; when the machine is found, Get returns the converted machine and a
\* nil error.  So the nil value is returned exactly when the machine is
\* absent, and the three outcomes differ pairwise.
C12_GetReportsAbsence ==
    (last.op = "Get" /\ last.variantOK) =>
      /\ AnsweredWith(last, "Get", "notfound")
           => /\ last.result = NilResult
              /\ last.err = Wrap(NewError("404 ResourceNotFound"),
                                 "vm " \o vmSpec.Name \o " not found")
      /\ AnsweredWith(last, "Get", "error")
           => /\ last.err = ProviderError
              /\ last.result.kind = "compute.VirtualMachine"
      /\ AnsweredWith(last, "Get", "ok")
           => /\ last.err = NoError
              /\ last.result = SDKToVM(last.before.vm[1])
      /\ last.result = NilResult <=> last.before.vm = Nil /\ last.submit = "notfound"
      /\ last.calls = <<"Get">>
      /\ last.after = last.before

\* C12 witness: a Get of a machine that a Delete has just removed is
\* answered not-found and returns the nil value.
C12_GetAfterDelete ==
    /\ prev.op = "Delete" /\ prev.err = NoError /\ prev.before.vm # Nil
    /\ last.op = "Get" /\ last.variantOK
    /\ AnsweredWith(last, "Get", "notfound")
    /\ last.result = NilResult

\* C13: an input of the wrong variant is rejected before any work.  Get,
\* Reconcile and Delete called with a value that is not a virtual machine
\* Spec return a non-nil error, take no step at all (so make no remote call)
\* and leave the provider as it was; Parameters called with a non-nil
\* existing value that is not an agent pool returns a non-nil error and no
\* payload.
C13_WrongVariantRejected ==
    /\ (last.op \in {"Get", "Reconcile", "Delete"} /\ ~last.variantOK)
         => /\ last.err # NoError
            /\ last.calls = <<>>
            /\ Range(last.calls) \cap RemoteCalls = {}
            /\ last.payload = Nil
            /\ last.after = last.before
    /\ (prev.op \in {"Get", "Reconcile", "Delete"} /\ ~prev.variantOK)
         => /\ prev.err # NoError
            /\ prev.calls = <<>>
            /\ prev.after = prev.before
    /\ (called /\ existing.kind \notin {"nil", "AgentPool"})
         => /\ ret.err # NoError
            /\ ret.params = Nil

\* C13 witness: a Reconcile and then a Get with a value of the wrong
\* variant, while the interface is present and the machine is not.
C13_WrongVariantCalls ==
    /\ prev.op = "Reconcile" /\ ~prev.variantOK /\ prev.err # NoError
    /\ last.op = "Get" /\ ~last.variantOK /\ last.err # NoError
    /\ last.before.nic # Nil /\ last.before.vm = Nil

\* the positions of step in the recorded operation rec
Occurrences(rec, step) == {i \in 1..Len(rec.calls) : rec.calls[i] = step}

\* in rec, step is taken only directly after a step before that was answered ok
OnlyAfterSuccessOf(rec, step, before) ==
    \A i \in Occurrences(rec, step) :
        i > 1 /\ rec.calls[i - 1] = before /\ rec.answers[i - 1] = "ok"

\* C14: Reconcile is sequential and single-shot.  In every attempt each
\* step, CreateOrUpdate included, is taken at most once; the wait on the
\* future is taken only after CreateOrUpdate succeeded, and the result is
\* fetched only after the wait succeeded; a nil error is returned only if
\* all three succeeded; and a step that fails is the last step of the
\* attempt, which returns a non-nil error.
C14_SequentialSingleShot ==
    last.op = "Reconcile" =>
      /\ \A st \in Range(last.calls) : Cardinality(Occurrences(last, st)) = 1
      /\ OnlyAfterSuccessOf(last, "WaitForCompletion", "CreateOrUpdate")
      /\ OnlyAfterSuccessOf(last, "Result", "WaitForCompletion")
      /\ last.err = NoError
           => /\ AnsweredWith(last, "CreateOrUpdate", "ok")
              /\ AnsweredWith(last, "WaitForCompletion", "ok")
              /\ AnsweredWith(last, "Result", "ok")
      /\ \A i \in 1..Len(last.calls) :
            last.answers[i] # "ok" => i = Len(last.calls) /\ last.err # NoError

\* C14 witness: CreateOrUpdate succeeded and the wait on the future failed;
\* the attempt ended there with an error.
C14_WaitFailed ==
    /\ last.op = "Reconcile"
    /\ AnsweredWith(last, "CreateOrUpdate", "ok")
    /\ AnsweredWith(last, "WaitForCompletion", "error")
    /\ "Result" \notin Range(last.calls)
    /\ last.err # NoError

\* in rec, every step outside firstSteps follows a step fetch answered ok
FollowsFetch(rec, fetch, firstSteps) ==
    \A i \in 1..Len(rec.calls) :
        rec.calls[i] \notin firstSteps
          => \E j \in 1..(i - 1) : rec.calls[j] = fetch /\ rec.answers[j] = "ok"

\* C15 as stated: in every Reconcile attempt the network interface is
\* fetched before any parameter is built, so every other step of the attempt,
\* the generation of the storage profile included, follows the fetch.
C15_FetchBeforeAnyParameters ==
    (last.op = "Reconcile" /\ last.variantOK)
      => FollowsFetch(last, "NICGet", {"NICGet"})

\* C15: in every Reconcile attempt the network interface is fetched after
\* the storage profile has been generated and before anything else: before
\* the keys and the password are generated, before the payload is assembled
\* and before CreateOrUpdate is submitted, and the payload carries the
\* identifier that was fetched.  If the fetch fails or the interface is
\* missing, Reconcile returns a non-nil error, has fetched once and submits
\* nothing.
C15_FetchBeforePayload ==
    (last.op = "Reconcile" /\ last.variantOK) =>
      /\ FollowsFetch(last, "NICGet", {"generateStorageProfile", "NICGet"})
      /\ Cardinality(Occurrences(last, "NICGet")) <= 1
      /\ AnsweredWith(last, "generateStorageProfile", "ok")
           => Occurrences(last, "NICGet") = {2}
      /\ (\E a \in {"notfound", "error", "badtype"} : AnsweredWith(last, "NICGet", a))
           => /\ last.err # NoError
              /\ "CreateOrUpdate" \notin Range(last.calls)
              /\ last.payload = Nil
              /\ last.after = last.before
      /\ last.payload # Nil
           => last.payload[1].NetworkInterfaces[1].ID = last.before.nic

\* C15 witness: the interface is missing; the attempt fetched it once,
\* returned an error and submitted nothing.
C15_InterfaceMissing ==
    /\ last.op = "Reconcile" /\ last.variantOK
    /\ last.before.nic = Nil
    /\ AnsweredWith(last, "NICGet", "notfound")
    /\ last.err # NoError

\* C16: Delete surfaces every failure other than not-found.  An error of
\* the submission other than not-found is returned; after a submission that
\* succeeded Delete waits on the future, and after a wait that succeeded it
\* fetches the result; an error of the wait or of the result is returned.
\* Delete returns nil exactly when the submission was answered not-found or
\* when the submission, the wait and the result all succeeded.
C16_DeleteSurfacesFailures ==
    (last.op = "Delete" /\ last.variantOK) =>
      /\ last.calls[1] = "Delete"
      /\ AnsweredWith(last, "Delete", "error")
           => last.err # NoError /\ last.calls = <<"Delete">>
      /\ AnsweredWith(last, "Delete", "ok")
           => Occurrences(last, "WaitForCompletion") = {2}
      /\ AnsweredWith(last, "WaitForCompletion", "ok")
           => Occurrences(last, "Result") = {3}
      /\ OnlyAfterSuccessOf(last, "WaitForCompletion", "Delete")
      /\ OnlyAfterSuccessOf(last, "Result", "WaitForCompletion")
      /\ AnsweredWith(last, "WaitForCompletion", "error") => last.err # NoError
      /\ AnsweredWith(last, "Result", "error") => last.err # NoError
      /\ last.err = NoError
           <=> \/ AnsweredWith(last, "Delete", "notfound")
               \/ /\ AnsweredWith(last, "Delete", "ok")
                  /\ AnsweredWith(last, "WaitForCompletion", "ok")
                  /\ AnsweredWith(last, "Result", "ok")

\* C16 witness: the deletion of an existing machine was submitted and
\* waited for, and the fetch of the result failed.
C16_ResultFailed ==
    /\ last.op = "Delete" /\ last.variantOK
    /\ last.before.vm # Nil
    /\ AnsweredWith(last, "WaitForCompletion", "ok")
    /\ AnsweredWith(last, "Result", "error")
    /\ last.err # NoError

\* the taints of the Spec as a payload carries them
SpecTaintsOf(sp) == IF Len(sp.NodeTaints) > 0 THEN Ptr(sp.NodeTaints) ELSE Nil

\* C18: taints never trigger an update.  When the existing pool is in a
\* terminal state and agrees with the Spec on the count (or autoscaling is
\* enabled in the Spec), the version, the mode, the autoscaling flag, the
\* min and max counts and the labels, Parameters returns (nil, nil) whatever
\* the taints of the two are; and a payload that another field triggers
\* carries the taints of the Spec, not those of the existing pool.
C18_TaintsNeverTrigger ==
    ExistingIsTerminalPool =>
      /\ ( /\ ToBool(s0.EnableAutoScaling) \/ Ptr(s0.Replicas) = Pool.Count
           /\ AgreeOnNonCountFields )
           => ret.params = Nil /\ ret.err = NoError
      /\ ret.params # Nil => ret.params[1].NodeTaints = SpecTaintsOf(s0)

\* C18 witness: the Spec and the existing pool carry different taints,
\* autoscaling is off, everything compared agrees, and the call was a no-op.
C18_TaintsDifferNoOp ==
    /\ ExistingIsTerminalPool
    /\ ~ToBool(s0.EnableAutoScaling) /\ Ptr(s0.Replicas) = Pool.Count
    /\ AgreeOnNonCountFields
    /\ s0.NodeTaints # <<>> /\ Pool.NodeTaints # Nil
    /\ SpecTaintsOf(s0) # Pool.NodeTaints
    /\ ret.params = Nil /\ ret.err = NoError

\* C19: Parameters called with no existing pool (nil) returns a payload and
\* a nil error, and the labels of the payload are exactly the labels of the
\* Spec: no merge takes place and the Spec is left as it was.
C19_CreationPayload ==
    (called /\ existing.kind = "nil") =>
      /\ ret.params # Nil
      /\ ret.err = NoError
      /\ ret.params[1].NodeLabels = s0.NodeLabels
      /\ s = s0

\* C19 witness: a creation for a Spec that declares a user label and a
\* system-prefixed label.
C19_CreationWithLabels ==
    /\ called /\ existing.kind = "nil"
    /\ DOMAIN s0.NodeLabels.kv = LabelKeys
    /\ ret.params # Nil
    /\ ret.params[1].NodeLabels = s0.NodeLabels

\* the labels of the payload of the last Parameters call
PayloadLabels == ret.params[1].NodeLabels

\* C20: when an update is required and the Spec declares a label map that
\* is not nil, the labels of the payload are the labels of the Spec plus
\* every system-prefixed label of the existing pool: a label of the
\* existing pool that is not system-prefixed and that the Spec does not
\* declare is not carried, and for a system-prefixed key of both the value
\* of the existing pool is the one in the payload.
C20_MergedLabelShape ==
    (ExistingIsTerminalPool /\ ret.params # Nil /\ ~s0.NodeLabels.nil) =>
      /\ ~PayloadLabels.nil
      /\ \A k \in DOMAIN s0.NodeLabels.kv :
            /\ k \in DOMAIN PayloadLabels.kv
            /\ ~(IsAzureSystemNodeLabelKey(k) /\ k \in DOMAIN Pool.NodeLabels.kv)
                 => PayloadLabels.kv[k] = s0.NodeLabels.kv[k]
      /\ \A k \in DOMAIN Pool.NodeLabels.kv :
            IsAzureSystemNodeLabelKey(k)
              => /\ k \in DOMAIN PayloadLabels.kv
                 /\ PayloadLabels.kv[k] = Pool.NodeLabels.kv[k]
      /\ \A k \in DOMAIN PayloadLabels.kv :
            \/ k \in DOMAIN s0.NodeLabels.kv
            \/ IsAzureSystemNodeLabelKey(k) /\ k \in DOMAIN Pool.NodeLabels.kv

\* C20 witness: the Spec declares only the system label, with a value
\* other than the existing one, and the existing pool has a user label too;
\* the payload carries the system label alone, with the existing value.
C20_ExistingValueOverrides ==
    /\ ExistingIsTerminalPool /\ ret.params # Nil
    /\ DOMAIN s0.NodeLabels.kv = {SystemLabelKey}
    /\ DOMAIN Pool.NodeLabels.kv = LabelKeys
    /\ s0.NodeLabels.kv[SystemLabelKey] # Pool.NodeLabels.kv[SystemLabelKey]
    /\ DOMAIN PayloadLabels.kv = {SystemLabelKey}
    /\ PayloadLabels.kv[SystemLabelKey] = Pool.NodeLabels.kv[SystemLabelKey]

\* the last attempt of the loop submitted an update of an existing pool
\* that was in a terminal state
UpdateSubmitted ==
    /\ called /\ ret.params # Nil
    /\ existing.kind = "AgentPool"

\* C17: the loop converges.  An update that the provider has applied leaves
\* the pool different from the pool the attempt found; otherwise the next
\* attempt, with the same Spec, finds what this one found and submits the
\* same update, and so does every attempt after it.
C17_UpdateChangesRemote ==
    UpdateSubmitted
      => [remotePool[1] EXCEPT !.ProvisioningState = Pool.ProvisioningState] # Pool

\* the image of the machine Spec resolves to nothing
ImageUnresolvable == generateImageReference(vmSpec.Image).err # NoError

\* C21: image validation precedes every network call.  When the image of
\* the Spec cannot be resolved, Reconcile returns the error of the
\* resolution after the generation of the storage profile alone: it makes
\* no remote call, neither the fetch of the network interface nor
\* CreateOrUpdate, and the provider is left as it was, whatever the state
\* of the interface and of the machine.
C21_ImageValidatedFirst ==
    (last.op = "Reconcile" /\ last.variantOK /\ ImageUnresolvable) =>
      /\ last.err = generateImageReference(vmSpec.Image).err
      /\ last.calls = <<"generateStorageProfile">>
      /\ last.answers = <<"error">>
      /\ Range(last.calls) \cap RemoteCalls = {}
      /\ last.payload = Nil
      /\ last.after = last.before

\* C21 witness: the Spec has some gallery coordinates and some marketplace
\* fields, the interface is present, and Reconcile returned the error of
\* the resolution.
C21_PartialCoordinates ==
    /\ last.op = "Reconcile" /\ last.variantOK
    /\ vmSpec.Image.ID = Nil
    /\ vmSpec.Image.Gallery # Nil /\ ~AllFive(vmSpec.Image)
    /\ vmSpec.Image.Publisher # Nil /\ ~AllFour(vmSpec.Image)
    /\ last.before.nic # Nil
    /\ last.err # NoError
    /\ "NICGet" \notin Range(last.calls)
====
